---- MODULE Spec2Model ----
(***************************************************************************)
(* Job lifecycle and queue coordination of the knee pipeline backend:      *)
(* upload_file (routes/upload.py), Job (models/job.py), the Celery task    *)
(* process_pipeline (workers/tasks.py), run_real_pipeline and              *)
(* run_pipeline_with_progress (workers/pipeline_worker.py), dummy_pipeline *)
(* (workers/dummy_worker.py), the progress parser and the error handler    *)
(* (services/).                                                            *)
(*                                                                         *)
(* Redis is the hash "jobs", the sorted set "job_queue", the list          *)
(* "processing_times" and the counter "stats:total_processed".  The Celery *)
(* broker is a list of task messages, one per job id.                      *)
(*                                                                         *)
(* Texts (subprocess output, exception messages) are sequences of word     *)
(* tokens; Python's substring test `phrase in text` is a test for a        *)
(* contiguous run of tokens.  Optional[...] values are sequences of length *)
(* at most one: <<>> is None.                                              *)
(*                                                                         *)
(* The worker can die at any point of an execution (Crash); with           *)
(* task_acks_late the unacknowledged message is then delivered again.  The *)
(* Redis writes inside the except clauses of process_pipeline are taken to *)
(* succeed.                                                                *)
(***************************************************************************)
EXTENDS Integers, Sequences, FiniteSets, TLC

\* ------------------------------------------------------------------ bounds
MaxJobs == 2        \* uploads that reach job creation
MaxCrashes == 1     \* worker crashes (hard kills) in one behaviour
MaxLines == 2       \* output lines one subprocess writes

JobIds == 1..MaxJobs

None == <<>>
Some(v) == <<v>>

Min(S) == CHOOSE x \in S : \A y \in S : x <= y

\* The one element of a singleton set.  { F(x) : x \in {e} } evaluates e once.
The(S) == CHOOSE x \in S : TRUE

\* ------------------------------------------------------------------ texts
\* str.lower() on one token.
Lower(w) ==
    CASE w = "CUDA" -> "cuda"
      [] w = "Pipeline" -> "pipeline"
      [] w = "Timeout" -> "timeout"
      [] w = "GPU" -> "gpu"
      [] w = "DICOM" -> "dicom"
      [] w = "Failed" -> "failed"
      [] w = "Base" -> "base"
      [] w = "No" -> "no"
      [] w = "Error" -> "error"
      [] w = "Errno" -> "errno"
      [] w = "Connection" -> "connection"
      [] w = "Invalid" -> "invalid"
      [] w = "Segmentation" -> "segmentation"
      [] w = "Not" -> "not"
      [] w = "Input" -> "input"
      [] w = "Permission" -> "permission"
      [] w = "OOM" -> "oom"
      [] w = "NSM" -> "nsm"
      [] w = "Config" -> "config"
      [] OTHER -> w

LowerText(t) == [i \in 1..Len(t) |-> Lower(t[i])]

\* `phrase in text`
Contains(t, p) ==
    \E i \in 1..(Len(t) - Len(p) + 1) : SubSeq(t, i, i + Len(p) - 1) = p

\* any(phrase in text for phrase in [...])
AnyPhrase(t, ps) == \E p \in ps : Contains(t, p)

\* ------------------------------------------------------------------ error handler
ErrorCode ==
    {"GPU_OOM", "TIMEOUT", "INVALID_FORMAT", "FILE_NOT_FOUND", "DICOM_ERROR",
     "SEGMENTATION_FAILED", "NSM_FAILED", "CONFIG_ERROR", "PIPELINE_ERROR"}

ERROR_MESSAGES(code) ==
    CASE code = "GPU_OOM" ->
           [code |-> "GPU_OOM",
            message |-> "The GPU ran out of memory while processing your file.",
            recovery_hint |-> "Try reducing the batch size, using a different segmentation model, or processing a smaller image."]
      [] code = "TIMEOUT" ->
           [code |-> "TIMEOUT",
            message |-> "Processing took longer than expected and was stopped.",
            recovery_hint |-> "Your file may be very large. Try processing a smaller region or contact support."]
      [] code = "INVALID_FORMAT" ->
           [code |-> "INVALID_FORMAT",
            message |-> "The uploaded file format is not supported.",
            recovery_hint |-> "Please upload a NIfTI (.nii, .nii.gz), NRRD (.nrrd), or DICOM zip file."]
      [] code = "FILE_NOT_FOUND" ->
           [code |-> "FILE_NOT_FOUND",
            message |-> "The uploaded file could not be found.",
            recovery_hint |-> "Please try uploading the file again."]
      [] code = "DICOM_ERROR" ->
           [code |-> "DICOM_ERROR",
            message |-> "The DICOM files could not be read properly.",
            recovery_hint |-> "Ensure the zip contains a valid DICOM series. Try converting to NIfTI format."]
      [] code = "SEGMENTATION_FAILED" ->
           [code |-> "SEGMENTATION_FAILED",
            message |-> "The segmentation step failed to complete.",
            recovery_hint |-> "The image quality may be insufficient. Try a different segmentation model."]
      [] code = "NSM_FAILED" ->
           [code |-> "NSM_FAILED",
            message |-> "Neural Shape Model analysis failed.",
            recovery_hint |-> "Try running without NSM, or use bone-only analysis instead."]
      [] code = "CONFIG_ERROR" ->
           [code |-> "CONFIG_ERROR",
            message |-> "There was an error with the processing configuration.",
            recovery_hint |-> "Please try again with default settings or contact support."]
      [] OTHER ->
           [code |-> "PIPELINE_ERROR",
            message |-> "An unexpected error occurred during processing.",
            recovery_hint |-> "Please try again. If the problem persists, contact support."]

\* A variant that tests the DICOM phrases before the invalid-format phrases and
\* "timeout" before the memory phrases.
ParseOtherOrder(output) ==
    LET output_lower == LowerText(output) IN
    IF Contains(output_lower, <<"timeout">>)
      THEN "TIMEOUT"
    ELSE IF AnyPhrase(output_lower,
                 {<<"cuda", "out", "of", "memory">>, <<"out", "of", "memory">>,
                  <<"cuda", "error">>, <<"cudnn", "error">>, <<"gpu", "memory">>,
                  <<"oom">>})
      THEN "GPU_OOM"
    ELSE IF AnyPhrase(output_lower,
                      {<<"not", "found">>, <<"does", "not", "exist">>,
                       <<"no", "such", "file">>})
      THEN "FILE_NOT_FOUND"
    ELSE IF AnyPhrase(output_lower,
                      {<<"dicom">>, <<"dcm", "error">>, <<"no", "dicom">>})
      THEN "DICOM_ERROR"
    ELSE IF AnyPhrase(output_lower,
                      {<<"invalid", "format">>, <<"cannot", "read">>,
                       <<"unsupported", "format">>, <<"not", "a", "valid">>})
      THEN "INVALID_FORMAT"
    ELSE IF AnyPhrase(output_lower,
                      {<<"segmentation", "failed">>, <<"segmentation", "error">>,
                       <<"no", "segmentation">>})
      THEN "SEGMENTATION_FAILED"
    ELSE IF AnyPhrase(output_lower,
                      {<<"nsm", "error">>, <<"nsm", "failed">>,
                       <<"shape", "model">>, <<"bscore", "error">>})
      THEN "NSM_FAILED"
    ELSE IF AnyPhrase(output_lower,
                      {<<"config", "error">>, <<"invalid", "config">>,
                       <<"missing", "config">>})
      THEN "CONFIG_ERROR"
    ELSE "PIPELINE_ERROR"

parse_error_from_output(output) ==
    LET output_lower == LowerText(output) IN
    IF AnyPhrase(output_lower,
                 {<<"cuda", "out", "of", "memory">>, <<"out", "of", "memory">>,
                  <<"cuda", "error">>, <<"cudnn", "error">>, <<"gpu", "memory">>,
                  <<"oom">>})
      THEN "GPU_OOM"
    ELSE IF Contains(output_lower, <<"timeout">>)
      THEN "TIMEOUT"
    ELSE IF AnyPhrase(output_lower,
                      {<<"not", "found">>, <<"does", "not", "exist">>,
                       <<"no", "such", "file">>})
      THEN "FILE_NOT_FOUND"
    ELSE IF AnyPhrase(output_lower,
                      {<<"invalid", "format">>, <<"cannot", "read">>,
                       <<"unsupported", "format">>, <<"not", "a", "valid">>})
      THEN "INVALID_FORMAT"
    ELSE IF AnyPhrase(output_lower,
                      {<<"dicom">>, <<"dcm", "error">>, <<"no", "dicom">>})
      THEN "DICOM_ERROR"
    ELSE IF AnyPhrase(output_lower,
                      {<<"segmentation", "failed">>, <<"segmentation", "error">>,
                       <<"no", "segmentation">>})
      THEN "SEGMENTATION_FAILED"
    ELSE IF AnyPhrase(output_lower,
                      {<<"nsm", "error">>, <<"nsm", "failed">>,
                       <<"shape", "model">>, <<"bscore", "error">>})
      THEN "NSM_FAILED"
    ELSE IF AnyPhrase(output_lower,
                      {<<"config", "error">>, <<"invalid", "config">>,
                       <<"missing", "config">>})
      THEN "CONFIG_ERROR"
    ELSE "PIPELINE_ERROR"

\* _map_exception_to_code without its rules on the exception type and on
\* "timeout", "format" and "read": the variant the timeout property must tell
\* from the code.
MapTimeoutTypeIgnored(exception) ==
    LET exception_str == LowerText(exception.msg) IN
    IF Contains(exception_str, <<"memory">>) \/ Contains(exception_str, <<"oom">>)
      THEN "GPU_OOM"
    ELSE IF Contains(exception_str, <<"not", "found">>)
      THEN "FILE_NOT_FOUND"
    ELSE "PIPELINE_ERROR"

\* An exception is [type, msg]: type(exception).__name__ and str(exception).
_map_exception_to_code(exception) ==
    LET exception_str == LowerText(exception.msg)
        exception_type == exception.type
    IN
    IF exception_type = "TimeoutError" \/ Contains(exception_str, <<"timeout">>)
      THEN "TIMEOUT"
    ELSE IF Contains(exception_str, <<"memory">>) \/ Contains(exception_str, <<"oom">>)
      THEN "GPU_OOM"
    ELSE IF Contains(exception_str, <<"not", "found">>)
      THEN "FILE_NOT_FOUND"
    ELSE IF exception_type = "FileNotFoundError"
      THEN "FILE_NOT_FOUND"
    ELSE IF Contains(exception_str, <<"format">>) \/ Contains(exception_str, <<"read">>)
      THEN "INVALID_FORMAT"
    ELSE "PIPELINE_ERROR"

\* (error_code, error_message): the message is "<message> <recovery_hint>",
\* kept as the pair of its two parts.
format_error_for_job(exception, output) ==
    The({ The({ <<code, <<error_info.message, error_info.recovery_hint>>>> :
                  error_info \in {ERROR_MESSAGES(code)} }) :
            code \in {IF output # None /\ output[1] # <<>>
                        THEN parse_error_from_output(output[1])
                        ELSE _map_exception_to_code(exception)} })

\* ------------------------------------------------------------------ pipeline worker helpers
PIPELINE_TIMEOUT_SECONDS == 1800
LineLimit == 200

NL == "\n"

\* str.strip() as far as line breaks go: leading and trailing NL tokens go.
RECURSIVE Strip(_)
Strip(t) ==
    IF t = <<>> THEN t
    ELSE IF Head(t) = NL THEN Strip(Tail(t))
    ELSE IF t[Len(t)] = NL THEN Strip(SubSeq(t, 1, Len(t) - 1))
    ELSE t

\* text.split("\n")[-1]
RECURSIVE LastLine(_)
LastLine(t) ==
    IF t = <<>> THEN <<>>
    ELSE IF t[Len(t)] = NL THEN <<>>
    ELSE Append(LastLine(SubSeq(t, 1, Len(t) - 1)), t[Len(t)])

_parse_pipeline_error(raw) ==
    LET error_output == LowerText(raw) IN
    IF Contains(error_output, <<"out", "of", "memory">>)
         \/ Contains(error_output, <<"cuda", "out", "of", "memory">>)
      THEN <<"GPU", "ran", "out", "of", "memory", ".", "Try", "a", "smaller",
             "file", "or", "contact", "support", ".">>
    ELSE IF Contains(error_output, <<"no", "such", "file">>)
              \/ Contains(error_output, <<"not", "found">>)
      THEN <<"Input", "file", "could", "not", "be", "read", ".", "Please",
             "check", "the", "file", "format", ".">>
    ELSE IF Contains(error_output, <<"invalid">>) /\ Contains(error_output, <<"format">>)
      THEN <<"Invalid", "file", "format", ".", "Supported", "formats", ":",
             "NIfTI", ",", "NRRD", ",", "DICOM", ".">>
    ELSE IF Contains(error_output, <<"permission", "denied">>)
      THEN <<"Permission", "denied", "when", "accessing", "files", ".">>
    ELSE IF Contains(error_output, <<"segmentation", "failed">>)
      THEN <<"Segmentation", "failed", ".", "The", "image", "quality", "may",
             "be", "insufficient", ".">>
    ELSE LET last == LastLine(Strip(error_output)) IN
         SubSeq(last, 1, IF Len(last) < LineLimit THEN Len(last) ELSE LineLimit)

\* A file of the output directory, by what the glob patterns look at.
File(ext, has_seg, starts_segmentation) ==
    [ext |-> ext, has_seg |-> has_seg, starts_segmentation |-> starts_segmentation]

KneeSegNii == File(".nii.gz", TRUE, FALSE)      \* knee_seg.nii.gz
SegmentationLog == File(".log", TRUE, TRUE)     \* segmentation.log
T1Nrrd == File(".nrrd", FALSE, FALSE)           \* t1.nrrd
ResultsJson == File(".json", FALSE, FALSE)      \* results.json
PipelineLog == File(".log", FALSE, FALSE)       \* pipeline.log

\* Contents the output directory can have when the subprocess has exited.
DirChoices ==
    {{}, {PipelineLog}, {KneeSegNii, PipelineLog}, {SegmentationLog},
     {T1Nrrd, PipelineLog}, {ResultsJson}}

\* "At least one recognised artifact": a segmentation image, another NIfTI or
\* NRRD image, or a JSON or CSV result file.
HasArtifact(d) ==
    \E f \in d : f.starts_segmentation \/ f.ext \in {".nii.gz", ".nrrd", ".json", ".csv"}

\* A verification that accepts every directory: the variant the artifact
\* property must tell from the code.
VerifyAlwaysTrue(output_dir) == TRUE

_verify_pipeline_outputs(output_dir) ==
    IF \E f \in output_dir :
          \/ (f.has_seg /\ f.ext = ".nii.gz")
          \/ (f.has_seg /\ f.ext = ".nrrd")
          \/ f.starts_segmentation
      THEN TRUE
    ELSE IF \E f \in output_dir : f.ext = ".nii.gz" \/ f.ext = ".nrrd"
      THEN TRUE
    ELSE IF \E f \in output_dir : f.ext = ".json" \/ f.ext = ".csv"
      THEN TRUE
    ELSE FALSE

\* ------------------------------------------------------------------ progress parser
TOTAL_STEPS == 10

\* int((a / b) * 100) for b > 0.  For the integers used here (a, b <= 12) the
\* float product truncates to the exact quotient.
IntPercent(a, b) == (a * 100) \div b

STEP_NAMES ==
    <<"Loading segmentation model", "Preprocessing image", "Running segmentation",
      "Postprocessing results", "Generating 3D meshes",
      "Calculating cartilage thickness", "Running Neural Shape Model",
      "Computing BScore", "Saving results", "Complete">>

NoUpdate == [kind |-> "none", step |-> 0, total_steps |-> 0, step_name |-> "", percent |-> 0]
ZeroDivision == [kind |-> "raise", step |-> 0, total_steps |-> 0, step_name |-> "", percent |-> 0]
ProgressUpdate(step, total, name, percent) ==
    [kind |-> "update", step |-> step, total_steps |-> total, step_name |-> name,
     percent |-> percent]

\* An output line, by what the three regular expressions find in it:
\*   kws     the indices of the STEP_PATTERNS entries that match it,
\*   marker  <<step, total>> of a "[PROGRESS] step/total: name" marker, or <<>>,
\*   pct     <<NN>> of the first "NN%", or <<>>.
Line(kws, marker, pct) == [kws |-> kws, marker |-> marker, pct |-> pct]

parse_progress_line(line) ==
    IF line.kws # {}
      THEN LET step == Min(line.kws) IN
           ProgressUpdate(step, TOTAL_STEPS, STEP_NAMES[step], IntPercent(step, TOTAL_STEPS))
    ELSE IF line.marker # <<>>
      THEN LET step == line.marker[1]
               total == line.marker[2]
           IN IF total = 0 THEN ZeroDivision
              ELSE ProgressUpdate(step, total, "marker", IntPercent(step, total))
    ELSE IF line.pct # <<>>
      THEN LET percent == IF line.pct[1] < 100 THEN line.pct[1] ELSE 100
               s == (percent * TOTAL_STEPS) \div 100
               step == IF s > 1 THEN s ELSE 1
           IN ProgressUpdate(step, TOTAL_STEPS, "Processing...", percent)
    ELSE NoUpdate

TIME_STEP_NAMES ==
    <<"Loading model", "Preprocessing", "Running segmentation", "Postprocessing",
      "Generating meshes", "Calculating thickness", "Running NSM",
      "Computing BScore", "Saving results", "Complete">>

\* A variant without the cap at 95.
EstimateUncapped(elapsed_seconds, estimated_total_arg) ==
    LET estimated_total == IF estimated_total_arg <= 0 THEN 300 ELSE estimated_total_arg
        percent == (elapsed_seconds * 100) \div estimated_total
        s == (percent * TOTAL_STEPS) \div 100
        step == IF s > TOTAL_STEPS THEN TOTAL_STEPS ELSE IF s > 1 THEN s ELSE 1
    IN ProgressUpdate(step, TOTAL_STEPS, TIME_STEP_NAMES[step], percent)

estimate_progress_from_time(elapsed_seconds, estimated_total_arg) ==
    LET estimated_total == IF estimated_total_arg <= 0 THEN 300 ELSE estimated_total_arg
        raw == (elapsed_seconds * 100) \div estimated_total
        percent == IF raw < 95 THEN raw ELSE 95
        s == (percent * TOTAL_STEPS) \div 100
        step == IF s > 1 THEN s ELSE 1
    IN ProgressUpdate(step, TOTAL_STEPS, TIME_STEP_NAMES[step], percent)

\* ------------------------------------------------------------------ state
VARIABLES
    jobs,               \* Redis hash "jobs": job id -> persisted Job Record
    job_queue,          \* Redis sorted set "job_queue": set of <<score, job id>>
    processing_times,   \* Redis list "processing_times", newest first
    total_processed,    \* Redis counter "stats:total_processed"
    broker,             \* Celery queue: pending process_pipeline messages (job ids)
    upPc,               \* upload_file: position of the handler of each job
    wpc,                \* process_pipeline: position of the single worker
    cur,                \* job id of the message the worker holds unacknowledged (0: none)
    wjob,               \* the worker's in-memory Job object
    exc,                \* the exception being handled
    now,                \* datetime.now(), a logical clock
    crashes,            \* worker crashes so far
    cleanups,           \* cleanup_gpu_memory calls of the current execution
    outcome,            \* how the subprocess of the current execution ended
    outdir,             \* pipeline_output directory of the current execution
    artifact,           \* whether that directory held a recognised artifact
    execs,              \* executions of process_pipeline started, per job
    retryAfter,         \* per job: error_code persisted when an execution started again
    mpc,                \* run_pipeline_with_progress: position of the monitoring loop
    proc,               \* the subprocess: [state, left, rc, at]
    pipes,              \* lines written and not yet read, per stream
    queues,             \* stdout_queue and stderr_queue
    collected,          \* stdout_lines and stderr_lines
    last_progress,      \* last_progress of the monitoring loop
    elapsed,            \* time.time() - start_time at the last loop head, and the clock
    call,               \* the last call of a service function: [n, op, arg, ret, reply]
    recorded            \* every duration passed to record_processing_time, oldest first

storeVars == <<jobs, job_queue, processing_times, total_processed>>
workerVars == <<wpc, cur, wjob, exc>>
histVars == <<now, crashes, cleanups, outcome, outdir, artifact, execs, retryAfter>>
monVars == <<mpc, proc, pipes, queues, collected, last_progress, elapsed>>
svcVars == <<call, recorded>>
vars == <<storeVars, broker, upPc, workerVars, histVars, monVars, svcVars>>

\* ------------------------------------------------------------------ Job (models/job.py)
\* created_at is the serial number of the Job's construction.
Job(created_at) ==
    [status |-> "queued", created_at |-> created_at, started_at |-> None,
     completed_at |-> None, progress_percent |-> 0, current_step |-> 0,
     total_steps |-> 4, step_name |-> "", result_path |-> None,
     result_size_bytes |-> None, error_message |-> None, error_code |-> None]

NoJob == Job(0)

\* redis_client.hset("jobs", self.id, json.dumps(self.to_dict()))
Hset(h, id, job) == [x \in (DOMAIN h) \cup {id} |-> IF x = id THEN job ELSE h[x]]

Zadd(q, id, score) == {e \in q : e[2] # id} \cup {<<score, id>>}

\* A variant of zrem that empties the sorted set.
ZremAll(q, id) == {}

\* Job.delete_from_queue
Zrem(q, id) == {e \in q : e[2] # id}

\* Local time of the host.  Instants are counted 1, 2, ...; at FoldInstant the
\* local clock is set back by FoldBack (end of daylight saving time), so the wall
\* times FoldInstant - FoldBack .. FoldInstant - 1 occur twice.
FoldInstant == 4
FoldBack == 2

\* datetime.now() at instant t: a naive local time, fold = 1 in the second pass
LocalNow(t) ==
    IF t < FoldInstant THEN [wall |-> t, fold |-> 0]
    ELSE [wall |-> t - FoldBack, fold |-> IF t - FoldBack < FoldInstant THEN 1 ELSE 0]

\* datetime.isoformat(): the text does not tell the fold
isoformat(d) == d.wall

\* datetime.fromisoformat(text)
fromisoformat(text) == [wall |-> text, fold |-> 0]

\* datetime.timestamp() of a naive local time
timestamp(d) ==
    IF d.wall < FoldInstant - FoldBack THEN d.wall
    ELSE IF d.wall < FoldInstant THEN (IF d.fold = 0 THEN d.wall ELSE d.wall + FoldBack)
    ELSE d.wall + FoldBack

\* A variant of Job.save's second half that enters the job whatever its status.
SaveIndexAnyStatus(q, id, job) ==
    Zadd(q, id, timestamp(fromisoformat(job.created_at)))

\* The second half of Job.save: only a queued job is (re-)entered in job_queue.
SaveIndex(q, id, job) ==
    IF job.status = "queued"
      THEN Zadd(q, id, timestamp(fromisoformat(job.created_at)))
      ELSE q

\* Job ids are uuid4 texts: their lexicographic order, which breaks ties of the
\* score, has nothing to do with the order of submission; here it is the reverse.
MemberKey(id) == 0 - id

\* redis zrank: the number of members that sort before the member, by score and
\* then by member
Zrank(q, id) ==
    LET own == CHOOSE e \in q : e[2] = id IN
    Cardinality({e \in q : \/ e[1] < own[1]
                           \/ (e[1] = own[1] /\ MemberKey(e[2]) < MemberKey(id))})

\* Job.get_queue_position
get_queue_position(job_id, q) ==
    IF \E e \in q : e[2] = job_id THEN Zrank(q, job_id) + 1 ELSE 0

\* Job.get_queue_length
get_queue_length(q) == Cardinality(q)

InQueue(id) == \E e \in job_queue : e[2] = id
Saved(id) == id \in DOMAIN jobs

\* ------------------------------------------------------------------ upload_file (routes/upload.py)
\* Job ids are fresh uuids: the handlers are numbered in the order in which
\* they construct their Job object.
UploadCreate(j) ==
    /\ upPc[j] = "idle"
    /\ IF j = 1 THEN TRUE ELSE upPc[j - 1] # "idle"
    /\ upPc' = [upPc EXCEPT ![j] = "new"]
    /\ UNCHANGED svcVars
    /\ UNCHANGED <<storeVars, broker, workerVars, histVars, monVars>>

\* job.save, first write
UploadHset(j) ==
    /\ upPc[j] = "new"
    /\ jobs' = Hset(jobs, j, Job(j))
    /\ upPc' = [upPc EXCEPT ![j] = "hset"]
    /\ UNCHANGED svcVars
    /\ UNCHANGED <<job_queue, processing_times, total_processed, broker,
                   workerVars, histVars, monVars>>

\* job.save, second write
UploadZadd(j) ==
    /\ upPc[j] = "hset"
    /\ job_queue' = SaveIndex(job_queue, j, Job(j))
    /\ upPc' = [upPc EXCEPT ![j] = "saved"]
    /\ UNCHANGED svcVars
    /\ UNCHANGED <<jobs, processing_times, total_processed, broker,
                   workerVars, histVars, monVars>>

\* process_pipeline.delay(...): the message reaches the broker, or delay raises
\* (broker unreachable) and the request ends with a 500.
UploadDelay(j) ==
    /\ upPc[j] = "saved"
    /\ \/ /\ broker' = Append(broker, j)
          /\ upPc' = [upPc EXCEPT ![j] = "sent"]
       \/ /\ upPc' = [upPc EXCEPT ![j] = "failed"]
          /\ UNCHANGED broker
    /\ UNCHANGED svcVars
    /\ UNCHANGED <<storeVars, workerVars, histVars, monVars>>

\* ------------------------------------------------------------------ exceptions and subprocess results
Exc(type, msg) == [type |-> type, msg |-> msg]
NoExc == Exc("", <<>>)

\* raise TimeoutError(f"Pipeline exceeded {PIPELINE_TIMEOUT_SECONDS}s timeout")
TimeoutExc == Exc("TimeoutError", <<"Pipeline", "exceeded", "1800s", "timeout">>)

\* raise RuntimeError(f"Pipeline failed: {error_msg}")
PipelineFailed(stderr, stdout) ==
    Exc("RuntimeError",
        <<"Pipeline", "failed", ":">>
            \o _parse_pipeline_error(IF stderr # <<>> THEN stderr ELSE stdout))

MissingOutputs ==
    Exc("RuntimeError",
        <<"Pipeline", "completed", "but", "expected", "output", "files", "are", "missing">>)

\* generate_pipeline_config: the base config.json is absent
BaseConfigMissing ==
    Exc("FileNotFoundError",
        <<"Base", "config", "not", "found", ":", "config.json", ".", "Ensure",
          "Stage", "3.2", "(", "Model", "Download", ")", "is", "complete", ".">>)

\* dummy_pipeline: raise ValueError(f"Failed to read input image: {e}")
UnreadableInput ==
    Exc("ValueError",
        <<"Failed", "to", "read", "input", "image", ":", "Unable", "to",
          "determine", "ImageIO", "reader">>)

\* result_path.stat() on a path that is gone
StatFailed ==
    Exc("FileNotFoundError",
        <<"[Errno 2]", "No", "such", "file", "or", "directory", ":", "results.zip">>)

\* a Redis command failing
RedisDown ==
    Exc("ConnectionError",
        <<"Error", "111", "connecting", "to", "localhost", ":", "6379", ".",
          "Connection", "refused", ".">>)

\* What a failing subprocess leaves on stderr and on stdout.
Stderrs ==
    {<<>>, <<"Invalid", "format", ":", "not", "a", "valid", "NIfTI", "file">>}

Stdouts == {<<"Running", "segmentation", NL, "Segmentation", "failed">>}

\* ------------------------------------------------------------------ process_pipeline (workers/tasks.py)
\* progress_callback, up to its job.save
progress_callback(job, step, total, step_name) ==
    [job EXCEPT !.current_step = step, !.total_steps = total,
                !.step_name = step_name,
                !.progress_percent = IntPercent(step, total)]

\* job.save(redis_client) of the worker's Job object
SaveJob(job) ==
    /\ jobs' = Hset(jobs, cur, job)
    /\ job_queue' = SaveIndex(job_queue, cur, job)

\* one update_progress(step, total, name) of a pipeline, then on to `next`
Progress(at, step, total, step_name, next) ==
    /\ wpc = at
    /\ wjob' = progress_callback(wjob, step, total, step_name)
    /\ SaveJob(wjob')
    /\ wpc' = next
    /\ UNCHANGED svcVars
    /\ UNCHANGED <<processing_times, total_processed, broker, upPc, cur, exc,
                   histVars, monVars>>

Raise(e) ==
    /\ exc' = e
    /\ wpc' = "handler"

\* The worker takes the next message; with task_acks_late it stays unacknowledged
\* until the task has returned or raised.
Recv ==
    /\ wpc = "idle"
    /\ broker # <<>>
    /\ cur' = Head(broker)
    /\ broker' = Tail(broker)
    /\ wpc' = "load"
    /\ UNCHANGED svcVars
    /\ UNCHANGED <<storeVars, upPc, wjob, exc, histVars, monVars>>

\* job = Job.load(job_id, redis_client); ValueError when it is missing
Load ==
    /\ wpc = "load"
    /\ IF Saved(cur)
         THEN /\ wjob' = jobs[cur]
              /\ wpc' = "dequeue"
              /\ execs' = [execs EXCEPT ![cur] = @ + 1]
              /\ retryAfter' = [retryAfter EXCEPT ![cur] =
                                  IF jobs[cur].status = "error"
                                    THEN jobs[cur].error_code[1] ELSE @]
         ELSE /\ wpc' = "ack"
              /\ UNCHANGED <<wjob, execs, retryAfter>>
    /\ UNCHANGED svcVars
    /\ UNCHANGED <<storeVars, broker, upPc, cur, exc, now, crashes, cleanups,
                   outcome, outdir, artifact, monVars>>

\* job.status = "processing"; job.started_at = now; job.delete_from_queue(...)
Dequeue ==
    /\ wpc = "dequeue"
    /\ wjob' = [wjob EXCEPT !.status = "processing", !.started_at = Some(now)]
    /\ now' = now + 1
    /\ job_queue' = Zrem(job_queue, cur)
    /\ wpc' = "save_processing"
    /\ UNCHANGED svcVars
    /\ UNCHANGED <<jobs, processing_times, total_processed, broker, upPc, cur, exc,
                   crashes, cleanups, outcome, outdir, artifact, execs, retryAfter,
                   monVars>>

\* job.save(redis_client), line 76
SaveProcessing ==
    /\ wpc = "save_processing"
    /\ SaveJob(wjob)
    /\ wpc' = "choose"
    /\ UNCHANGED svcVars
    /\ UNCHANGED <<processing_times, total_processed, broker, upPc, cur, wjob, exc,
                   histVars, monVars>>

\* _should_use_real_pipeline(options): the USE_DUMMY_PIPELINE environment variable
Choose ==
    /\ wpc = "choose"
    /\ wpc' \in {"real_cfg", "dummy_1"}
    /\ UNCHANGED svcVars
    /\ UNCHANGED <<storeVars, broker, upPc, cur, wjob, exc, histVars, monVars>>

\* generate_pipeline_config(...)
RealConfig ==
    /\ wpc = "real_cfg"
    /\ \/ wpc' = "real_p1" /\ UNCHANGED exc
       \/ Raise(BaseConfigMissing)
    /\ UNCHANGED svcVars
    /\ UNCHANGED <<storeVars, broker, upPc, cur, wjob, histVars, monVars>>

RealProgress1 == Progress("real_p1", 1, 5, "Preparing pipeline", "real_p2")
RealProgress2 == Progress("real_p2", 2, 5, "Running segmentation", "real_sub")

\* subprocess.run(..., timeout=PIPELINE_TIMEOUT_SECONDS) and the return code check
RealSubprocess ==
    /\ wpc = "real_sub"
    /\ \/ /\ outcome' = "timeout"
          /\ proc' = [proc EXCEPT !.state = "killed"]
          /\ Raise(TimeoutExc)
          /\ UNCHANGED outdir
       \/ \E stderr \in Stderrs, stdout \in Stdouts :
            /\ outcome' = "failed"
            /\ proc' = [proc EXCEPT !.state = "exited", !.rc = 1]
            /\ Raise(PipelineFailed(stderr, stdout))
            /\ UNCHANGED outdir
       \/ \E d \in DirChoices :
            /\ outcome' = "exit0"
            /\ proc' = [proc EXCEPT !.state = "exited", !.rc = 0]
            /\ outdir' = d
            /\ wpc' = "real_p3"
            /\ UNCHANGED exc
    /\ UNCHANGED svcVars
    /\ UNCHANGED <<storeVars, broker, upPc, cur, wjob, now, crashes, cleanups,
                   artifact, execs, retryAfter, mpc, pipes, queues, collected,
                   last_progress, elapsed>>

\* update_progress(3, ...) and _verify_pipeline_outputs(results_dir)
RealVerify ==
    /\ wpc = "real_p3"
    /\ wjob' = progress_callback(wjob, 3, 5, "Verifying outputs")
    /\ SaveJob(wjob')
    /\ IF _verify_pipeline_outputs(outdir)
         THEN wpc' = "real_p4" /\ UNCHANGED exc
         ELSE Raise(MissingOutputs)
    /\ artifact' = HasArtifact(outdir)
    /\ outdir' = {}
    /\ UNCHANGED svcVars
    /\ UNCHANGED <<processing_times, total_processed, broker, upPc, cur,
                   now, crashes, cleanups, outcome, execs, retryAfter, monVars>>

\* update_progress(4, ...) and shutil.make_archive
RealPackage == Progress("real_p4", 4, 5, "Packaging results", "real_p5")

RealProgress5 == Progress("real_p5", 5, 5, "Cleaning up", "real_cleanup")

\* cleanup_gpu_memory() at the end of run_real_pipeline
RealCleanup ==
    /\ wpc = "real_cleanup"
    /\ cleanups' = cleanups + 1
    /\ wpc' = "finish"
    /\ UNCHANGED svcVars
    /\ UNCHANGED <<storeVars, broker, upPc, cur, wjob, exc, now, crashes, outcome,
                   outdir, artifact, execs, retryAfter, monVars>>

\* dummy_pipeline: update_progress(1, ...) and reading the image
Dummy1 ==
    /\ wpc = "dummy_1"
    /\ wjob' = progress_callback(wjob, 1, 4, "Validating input")
    /\ SaveJob(wjob')
    /\ \/ wpc' = "dummy_2" /\ UNCHANGED exc
       \/ Raise(UnreadableInput)
    /\ UNCHANGED svcVars
    /\ UNCHANGED <<processing_times, total_processed, broker, upPc, cur,
                   histVars, monVars>>

Dummy2 == Progress("dummy_2", 2, 4, "Processing image", "dummy_3")
Dummy3 == Progress("dummy_3", 3, 4, "Generating results", "dummy_4")
Dummy4 == Progress("dummy_4", 4, 4, "Packaging output", "finish")

HistoryLimit == 20

\* A variant that pushes without trimming.
RecordWithoutTrim(times, duration_seconds) == <<duration_seconds>> \o times

\* record_processing_time: lpush, then ltrim(0, 19)
record_processing_time(times, duration_seconds) ==
    LET pushed == <<duration_seconds>> \o times IN
    SubSeq(pushed, 1, IF Len(pushed) < HistoryLimit THEN Len(pushed) ELSE HistoryLimit)

\* lines 124-128: the completion fields are assigned, then result_path.stat()
Finish ==
    /\ wpc = "finish"
    /\ now' = now + 1
    /\ \/ /\ wjob' = [wjob EXCEPT !.status = "complete", !.progress_percent = 100,
                                  !.completed_at = Some(now),
                                  !.result_path = Some("results.zip"),
                                  !.result_size_bytes = Some(1)]
          /\ wpc' = "save_complete"
          /\ UNCHANGED exc
       \/ /\ wjob' = [wjob EXCEPT !.status = "complete", !.progress_percent = 100,
                                  !.completed_at = Some(now),
                                  !.result_path = Some("results.zip")]
          /\ Raise(StatFailed)
    /\ UNCHANGED svcVars
    /\ UNCHANGED <<storeVars, broker, upPc, cur, crashes, cleanups, outcome,
                   outdir, artifact, execs, retryAfter, monVars>>

\* job.save(redis_client), line 129
SaveComplete ==
    /\ wpc = "save_complete"
    /\ \/ /\ SaveJob(wjob)
          /\ wpc' = "stats_time"
          /\ UNCHANGED exc
       \/ /\ Raise(RedisDown)
          /\ UNCHANGED <<jobs, job_queue>>
    /\ UNCHANGED svcVars
    /\ UNCHANGED <<processing_times, total_processed, broker, upPc, cur, wjob,
                   histVars, monVars>>

\* lines 132-135
RecordTime ==
    /\ wpc = "stats_time"
    /\ \/ /\ processing_times' =
                record_processing_time(processing_times,
                                       wjob.completed_at[1] - wjob.started_at[1])
          /\ recorded' = Append(recorded, wjob.completed_at[1] - wjob.started_at[1])
          /\ wpc' = "stats_count"
          /\ UNCHANGED exc
       \/ /\ Raise(RedisDown)
          /\ UNCHANGED <<processing_times, recorded>>
    /\ UNCHANGED call
    /\ UNCHANGED <<jobs, job_queue, total_processed, broker, upPc, cur, wjob,
                   histVars, monVars>>

\* increment_processed_count(redis_client), then return
IncrementCount ==
    /\ wpc = "stats_count"
    /\ \/ /\ total_processed' = total_processed + 1
          /\ wpc' = "ack"
          /\ UNCHANGED exc
       \/ /\ Raise(RedisDown)
          /\ UNCHANGED total_processed
    /\ UNCHANGED svcVars
    /\ UNCHANGED <<jobs, job_queue, processing_times, broker, upPc, cur, wjob,
                   histVars, monVars>>

\* A variant of the except clauses that stores the code without the message.
HandlerWithoutMessage(job, e) ==
    The({ [job EXCEPT !.status = "error", !.error_code = Some(got[1])] :
            got \in {format_error_for_job(e, Some(e.msg))} })

\* The two except clauses, up to job.save: `except TimeoutError` passes no output,
\* `except Exception` passes getattr(e, 'output', str(e)).
HandleError(job, e) ==
    The({ [job EXCEPT !.status = "error", !.error_message = Some(got[2]),
                      !.error_code = Some(got[1])] :
            got \in {IF e.type = "TimeoutError"
                       THEN format_error_for_job(e, None)
                       ELSE format_error_for_job(e, Some(e.msg))} })

Handler ==
    /\ wpc = "handler"
    /\ wjob' = HandleError(wjob, exc)
    /\ SaveJob(wjob')
    /\ wpc' = "handler_cleanup"
    /\ UNCHANGED svcVars
    /\ UNCHANGED <<processing_times, total_processed, broker, upPc, cur, exc,
                   histVars, monVars>>

\* _cleanup_after_error(), then raise
HandlerCleanup ==
    /\ wpc = "handler_cleanup"
    /\ cleanups' = cleanups + 1
    /\ wpc' = "ack"
    /\ UNCHANGED svcVars
    /\ UNCHANGED <<storeVars, broker, upPc, cur, wjob, exc, now, crashes, outcome,
                   outdir, artifact, execs, retryAfter, monVars>>

\* The task has returned or raised: the message is acknowledged.
Ack ==
    /\ wpc = "ack"
    /\ wpc' = "idle"
    /\ cur' = 0
    /\ wjob' = NoJob
    /\ exc' = NoExc
    /\ cleanups' = 0
    /\ outcome' = "none"
    /\ outdir' = {}
    /\ artifact' = FALSE
    /\ proc' = [state |-> "none", left |-> 0, rc |-> 0, at |-> 0]
    /\ UNCHANGED svcVars
    /\ UNCHANGED <<storeVars, broker, upPc, now, crashes, execs, retryAfter, mpc, pipes, queues,
                   collected, last_progress, elapsed>>

\* The worker dies while it holds an unacknowledged message (task_acks_late):
\* the broker delivers the message again, before or after the ones that wait.
Crash ==
    /\ wpc # "idle"
    /\ crashes < MaxCrashes
    /\ crashes' = crashes + 1
    /\ \E i \in 0..Len(broker) :
          broker' = SubSeq(broker, 1, i) \o <<cur>> \o SubSeq(broker, i + 1, Len(broker))
    /\ wpc' = "idle"
    /\ cur' = 0
    /\ wjob' = NoJob
    /\ exc' = NoExc
    /\ cleanups' = 0
    /\ outcome' = "none"
    /\ outdir' = {}
    /\ artifact' = FALSE
    /\ proc' = [state |-> "none", left |-> 0, rc |-> 0, at |-> 0]
    /\ UNCHANGED svcVars
    /\ UNCHANGED <<storeVars, upPc, now, execs, retryAfter, mpc, pipes, queues,
                   collected, last_progress, elapsed>>

\* ------------------------------------------------------------------ specification
NoLines == [s \in {"stdout", "stderr"} |-> <<>>]

MonitorOff ==
    /\ mpc = "off"
    /\ proc = [state |-> "none", left |-> 0, rc |-> 0, at |-> 0]
    /\ pipes = NoLines
    /\ queues = NoLines
    /\ collected = NoLines
    /\ last_progress = NoUpdate
    /\ elapsed = [at_head |-> 0, clock |-> 0]

\* No service function has been called.
NoCall == [n |-> 0, op |-> "none", arg |-> <<>>, ret |-> <<>>, reply |-> <<>>]

NoCalls ==
    /\ call = NoCall
    /\ recorded = <<>>

Init ==
    /\ jobs = [x \in {} |-> NoJob]
    /\ job_queue = {}
    /\ processing_times = <<>>
    /\ total_processed = 0
    /\ broker = <<>>
    /\ upPc = [j \in JobIds |-> "idle"]
    /\ wpc = "idle"
    /\ cur = 0
    /\ wjob = NoJob
    /\ exc = NoExc
    /\ now = 1
    /\ crashes = 0
    /\ cleanups = 0
    /\ outcome = "none"
    /\ outdir = {}
    /\ artifact = FALSE
    /\ execs = [j \in JobIds |-> 0]
    /\ retryAfter = [j \in JobIds |-> "none"]
    /\ MonitorOff
    /\ NoCalls

Upload ==
    \/ \E j \in JobIds : UploadCreate(j)
    \/ \E j \in JobIds : UploadHset(j)
    \/ \E j \in JobIds : UploadZadd(j)
    \/ \E j \in JobIds : UploadDelay(j)

Worker ==
    \/ Recv \/ Load \/ Dequeue \/ SaveProcessing \/ Choose
    \/ RealConfig \/ RealProgress1 \/ RealProgress2 \/ RealSubprocess
    \/ RealVerify \/ RealPackage \/ RealProgress5 \/ RealCleanup
    \/ Dummy1 \/ Dummy2 \/ Dummy3 \/ Dummy4
    \/ Finish \/ SaveComplete \/ RecordTime \/ IncrementCount
    \/ Handler \/ HandlerCleanup \/ Ack

Next == Upload \/ Worker \/ Crash

Spec == Init /\ [][Next]_vars

\* The worker keeps running and a request handler that has started runs to its
\* end; crashes are not fair, and there are at most MaxCrashes of them.
LiveSpec ==
    /\ Init /\ [][Next]_vars
    /\ WF_vars(Worker)
    /\ WF_vars(\E j \in JobIds : UploadHset(j) \/ UploadZadd(j) \/ UploadDelay(j))

\* ------------------------------------------------------------------ run_pipeline_with_progress (workers/pipeline_worker.py)
\* The monitoring loop with tasks.progress_callback as its progress_callback, on
\* a job that process_pipeline has put into processing.
Streams == {"stdout", "stderr"}

KwSaving == Line({9}, <<>>, <<>>)        \* "Saving results"
KwLoading == Line({1}, <<>>, <<>>)       \* "Loading model"
Marker75 == Line({}, <<7, 5>>, <<>>)     \* "[PROGRESS] 7/5: x"
Marker30 == Line({}, <<3, 0>>, <<>>)     \* "[PROGRESS] 3/0: x"
Pct45 == Line({}, <<>>, <<45>>)          \* "... 45%"
Plain == Line({}, <<>>, <<>>)            \* "INFO reading header"

Lines == {KwSaving, KwLoading, Marker75, Marker30, Pct45, Plain}

\* Seconds since start_time at which the loop can find itself.
TimePoints == {0, 150, PIPELINE_TIMEOUT_SECONDS, PIPELINE_TIMEOUT_SECONDS + 1}

\* The subprocess writes a line to one of its pipes.
Write(st) ==
    /\ proc.state = "running"
    /\ proc.left > 0
    /\ \E line \in Lines : pipes' = [pipes EXCEPT ![st] = Append(@, line)]
    /\ proc' = [proc EXCEPT !.left = @ - 1]
    /\ UNCHANGED svcVars
    /\ UNCHANGED <<storeVars, broker, upPc, workerVars, histVars, mpc, queues,
                   collected, last_progress, elapsed>>

\* The subprocess exits; `at` is the time of the exit (time passes in Sleep).
Exit ==
    /\ proc.state = "running"
    /\ \E rc \in {0, 1} :
          proc' = [proc EXCEPT !.state = "exited", !.rc = rc, !.at = elapsed.clock]
    /\ UNCHANGED svcVars
    /\ UNCHANGED <<storeVars, broker, upPc, workerVars, histVars, mpc, pipes, queues,
                   collected, last_progress, elapsed>>

\* read_stream: queue.put(line) for a line of stream.readline
ReadLine(st) ==
    /\ pipes[st] # <<>>
    /\ queues' = [queues EXCEPT ![st] = Append(@, Head(pipes[st]))]
    /\ pipes' = [pipes EXCEPT ![st] = Tail(@)]
    /\ UNCHANGED svcVars
    /\ UNCHANGED <<storeVars, broker, upPc, workerVars, histVars, mpc, proc,
                   collected, last_progress, elapsed>>

\* elapsed = time.time() - start_time; the timeout check.  process.kill() does
\* nothing to a process that has exited.
LoopHead ==
    /\ mpc = "head"
    /\ elapsed' = [elapsed EXCEPT !.at_head = elapsed.clock]
    /\ IF elapsed.clock > PIPELINE_TIMEOUT_SECONDS
         THEN /\ proc' = [proc EXCEPT !.state = IF @ = "running" THEN "killed" ELSE @]
              /\ mpc' = "timeout"
         ELSE /\ mpc' = "drain_stdout"
              /\ UNCHANGED proc
    /\ UNCHANGED svcVars
    /\ UNCHANGED <<storeVars, broker, upPc, workerVars, histVars, pipes, queues,
                   collected, last_progress>>

\* One turn of a `while True: line = queue.get_nowait() ...` loop.
Drain(st, at, next) ==
    /\ mpc = at
    /\ IF queues[st] = <<>>
         THEN /\ mpc' = next
              /\ UNCHANGED <<jobs, job_queue, wjob, queues, collected, last_progress>>
         ELSE LET line == Head(queues[st])
                  progress == parse_progress_line(line)
              IN /\ queues' = [queues EXCEPT ![st] = Tail(@)]
                 /\ collected' = [collected EXCEPT ![st] = Append(@, line)]
                 /\ IF progress.kind = "raise"
                      THEN /\ mpc' = "raised"
                           /\ UNCHANGED <<jobs, job_queue, wjob, last_progress>>
                    ELSE IF progress.kind = "update" /\ progress # last_progress
                      THEN /\ wjob' = progress_callback(wjob, progress.step,
                                                        progress.total_steps,
                                                        progress.step_name)
                           /\ SaveJob(wjob')
                           /\ last_progress' = progress
                           /\ mpc' = at
                    ELSE /\ mpc' = at
                         /\ UNCHANGED <<jobs, job_queue, wjob, last_progress>>
    /\ UNCHANGED svcVars
    /\ UNCHANGED <<processing_times, total_processed, broker, upPc, wpc, cur, exc,
                   histVars, proc, pipes, elapsed>>

DrainStdout == Drain("stdout", "drain_stdout", "drain_stderr")
DrainStderr == Drain("stderr", "drain_stderr", "poll")

\* if process.poll() is not None: break
Poll ==
    /\ mpc = "poll"
    /\ mpc' = IF proc.state = "exited" THEN "join" ELSE "fallback"
    /\ UNCHANGED svcVars
    /\ UNCHANGED <<storeVars, broker, upPc, workerVars, histVars, proc, pipes, queues,
                   collected, last_progress, elapsed>>

\* the time-based estimate while last_progress is None
Fallback ==
    /\ mpc = "fallback"
    /\ IF last_progress.kind = "none"
         THEN /\ wjob' = The({ progress_callback(wjob, tp.step, tp.total_steps, tp.step_name) :
                                 tp \in {estimate_progress_from_time(elapsed.at_head, 300)} })
              /\ SaveJob(wjob')
         ELSE UNCHANGED <<jobs, job_queue, wjob>>
    /\ mpc' = "sleep"
    /\ UNCHANGED svcVars
    /\ UNCHANGED <<processing_times, total_processed, broker, upPc, wpc, cur, exc,
                   histVars, proc, pipes, queues, collected, last_progress, elapsed>>

\* time.sleep(0.5): the next loop head finds the clock at a later point
Sleep ==
    /\ mpc = "sleep"
    /\ \E t \in TimePoints :
          /\ t > elapsed.clock
          /\ elapsed' = [elapsed EXCEPT !.clock = t]
    /\ mpc' = "head"
    /\ UNCHANGED svcVars
    /\ UNCHANGED <<storeVars, broker, upPc, workerVars, histVars, proc, pipes, queues,
                   collected, last_progress>>

\* the two join(timeout=1) calls and the return
Join ==
    /\ mpc = "join"
    /\ mpc' = "returned"
    /\ UNCHANGED svcVars
    /\ UNCHANGED <<storeVars, broker, upPc, workerVars, histVars, proc, pipes, queues,
                   collected, last_progress, elapsed>>

ProcessingJob ==
    [Job(1) EXCEPT !.status = "processing", !.started_at = Some(1)]

ProgInit ==
    /\ jobs = [x \in {1} |-> ProcessingJob]
    /\ job_queue = {}
    /\ processing_times = <<>>
    /\ total_processed = 0
    /\ broker = <<>>
    /\ upPc = [j \in JobIds |-> IF j = 1 THEN "sent" ELSE "idle"]
    /\ wpc = "monitor"
    /\ cur = 1
    /\ wjob = ProcessingJob
    /\ exc = NoExc
    /\ now = 2
    /\ crashes = 0
    /\ cleanups = 0
    /\ outcome = "none"
    /\ outdir = {}
    /\ artifact = FALSE
    /\ execs = [j \in JobIds |-> IF j = 1 THEN 1 ELSE 0]
    /\ retryAfter = [j \in JobIds |-> "none"]
    /\ mpc = "head"
    /\ proc = [state |-> "running", left |-> MaxLines, rc |-> 0, at |-> 0]
    /\ pipes = NoLines
    /\ queues = NoLines
    /\ collected = NoLines
    /\ last_progress = NoUpdate
    /\ elapsed = [at_head |-> 0, clock |-> 0]
    /\ NoCalls

Subprocess == (\E st \in Streams : Write(st)) \/ Exit

Readers == \E st \in Streams : ReadLine(st)

Monitor ==
    \/ LoopHead \/ DrainStdout \/ DrainStderr \/ Poll \/ Fallback \/ Sleep \/ Join

ProgNext == Subprocess \/ Readers \/ Monitor

ProgSpec == ProgInit /\ [][ProgNext]_vars

\* ------------------------------------------------------------------ processing time statistics (services/job_service.py)
MaxCalls == 2
MaxPosition == 3

DefaultAverageSeconds == 240

Durations == {100, 200, 300}

RECURSIVE Sum(_)
Sum(times) == IF times = <<>> THEN 0 ELSE Head(times) + Sum(Tail(times))

\* redis lrange(key, start, stop): both ends inclusive, 0-based
Lrange(list, start, stop) ==
    SubSeq(list, start + 1, IF stop + 1 < Len(list) THEN stop + 1 ELSE Len(list))

\* int(x) of the quotient num / den: truncation toward zero
Trunc(num, den) ==
    IF num >= 0 THEN num \div den ELSE -((-num) \div den)

\* A variant that averages the newest entry only.
AverageOfNewest(list) ==
    IF list = <<>> THEN <<DefaultAverageSeconds, 1>> ELSE <<Head(list), 1>>

\* The float it returns, as the fraction <<numerator, denominator>>.
get_average_processing_time(list) ==
    LET times == Lrange(list, 0, HistoryLimit - 1) IN
    IF times = <<>> THEN <<DefaultAverageSeconds, 1>>
    ELSE <<Sum(times), Len(times)>>

get_estimated_wait(queue_position, list) ==
    The({ Trunc(queue_position * avg_time[1], avg_time[2]) :
            avg_time \in {get_average_processing_time(list)} })

Call(op, arg, ret) ==
    [n |-> call.n + 1, op |-> op, arg |-> arg, ret |-> ret, reply |-> None]

\* The durations of k earlier calls, oldest first.
EarlierDurations(k, shift) == [i \in 1..k |-> 100 * (1 + ((i + shift) % 3))]

Reverse(seq) == [i \in 1..Len(seq) |-> seq[Len(seq) + 1 - i]]

\* The worker has recorded k <= 20 durations so far.
StatsInit ==
    /\ \E k \in 0..HistoryLimit, shift \in 0..2 :
          /\ recorded = EarlierDurations(k, shift)
          /\ processing_times = Reverse(recorded)
    /\ jobs = [x \in {} |-> NoJob]
    /\ job_queue = {}
    /\ total_processed = 0
    /\ broker = <<>>
    /\ upPc = [j \in JobIds |-> "idle"]
    /\ wpc = "idle"
    /\ cur = 0
    /\ wjob = NoJob
    /\ exc = NoExc
    /\ now = 1
    /\ crashes = 0
    /\ cleanups = 0
    /\ outcome = "none"
    /\ outdir = {}
    /\ artifact = FALSE
    /\ execs = [j \in JobIds |-> 0]
    /\ retryAfter = [j \in JobIds |-> "none"]
    /\ MonitorOff
    /\ call = NoCall

RecordProcessingTime ==
    /\ call.n < MaxCalls
    /\ \E duration_seconds \in Durations :
          /\ processing_times' = record_processing_time(processing_times, duration_seconds)
          /\ recorded' = Append(recorded, duration_seconds)
          /\ call' = Call("record_processing_time", <<duration_seconds>>, None)
    /\ UNCHANGED <<jobs, job_queue, total_processed, broker, upPc, workerVars,
                   histVars, monVars>>

GetEstimatedWait ==
    /\ call.n < MaxCalls
    /\ \E queue_position \in 0..MaxPosition :
          call' = Call("get_estimated_wait", <<queue_position>>,
                       Some(get_estimated_wait(queue_position, processing_times)))
    /\ UNCHANGED <<storeVars, broker, upPc, workerVars, histVars, monVars, recorded>>

StatsNext == RecordProcessingTime \/ GetEstimatedWait

StatsSpec == StatsInit /\ [][StatsNext]_vars

\* ------------------------------------------------------------------ classification of output texts (services/error_handler.py)
\* Two texts of pipeline output per kind of failure, as the pipeline and its
\* libraries word them.
FailureTexts ==
    << <<<<"CUDA", "out", "of", "memory">>, <<"killed", "by", "OOM">>>>,
       <<<<"Timeout", "waiting", "for", "lock">>, <<"read", "timeout">>>>,
       <<<<"No", "such", "file", "or", "directory">>, <<"path", "does", "not", "exist">>>>,
       <<<<"Invalid", "format">>, <<"Not", "a", "valid", "NIfTI", "file">>>>,
       <<<<"DICOM", "series", "incomplete">>, <<"dcm", "error">>>>,
       <<<<"Segmentation", "failed">>, <<"no", "segmentation", "produced">>>>,
       <<<<"NSM", "failed">>, <<"shape", "model", "diverged">>>>,
       <<<<"Config", "error">>, <<"missing", "config">>>> >>

\* The output that reports the failures `kinds`, from kind `g` on, one per line.
RECURSIVE OutputFrom(_, _, _, _)
OutputFrom(kinds, wording, ascending, g) ==
    IF g > Len(FailureTexts) THEN <<>>
    ELSE LET k == IF ascending THEN g ELSE Len(FailureTexts) + 1 - g
             line == IF k \in kinds THEN FailureTexts[k][wording] \o <<NL>> ELSE <<>>
         IN line \o OutputFrom(kinds, wording, ascending, g + 1)

Outputs ==
    { <<"INFO", "starting", NL>> \o OutputFrom(kinds, wording, ascending, 1) :
        kinds \in SUBSET (1..Len(FailureTexts)), wording \in 1..2, ascending \in BOOLEAN }

\* An exception whose text is such an output is about to be classified.
ClassifyInit ==
    /\ \E output \in Outputs : exc = Exc("RuntimeError", output)
    /\ jobs = [x \in {} |-> NoJob]
    /\ job_queue = {}
    /\ processing_times = <<>>
    /\ total_processed = 0
    /\ broker = <<>>
    /\ upPc = [j \in JobIds |-> "idle"]
    /\ wpc = "idle"
    /\ cur = 0
    /\ wjob = NoJob
    /\ now = 1
    /\ crashes = 0
    /\ cleanups = 0
    /\ outcome = "none"
    /\ outdir = {}
    /\ artifact = FALSE
    /\ execs = [j \in JobIds |-> 0]
    /\ retryAfter = [j \in JobIds |-> "none"]
    /\ MonitorOff
    /\ NoCalls

ParseErrorFromOutput ==
    /\ call.n < MaxCalls
    /\ call' = Call("parse_error_from_output", exc.msg,
                    Some(parse_error_from_output(exc.msg)))
    /\ UNCHANGED <<storeVars, broker, upPc, workerVars, histVars, monVars, recorded>>

ClassifyNext == ParseErrorFromOutput

ClassifySpec == ClassifyInit /\ [][ClassifyNext]_vars

\* ------------------------------------------------------------------ the queue index (models/job.py)
MaxInstant == 6

\* Time passes.
Tick ==
    /\ now < MaxInstant
    /\ now' = now + 1
    /\ UNCHANGED <<storeVars, broker, upPc, workerVars, crashes, cleanups, outcome,
                   outdir, artifact, execs, retryAfter, monVars, svcVars>>

\* Job(...) and job.save(redis_client) for the next submitted job; the clock has
\* moved on when the call returns
JobSave(j) ==
    /\ j = Cardinality(DOMAIN jobs) + 1
    /\ now < MaxInstant
    /\ now' = now + 1
    /\ LET job == Job(isoformat(LocalNow(now))) IN
          /\ jobs' = Hset(jobs, j, job)
          /\ job_queue' = SaveIndex(job_queue, j, job)
    /\ call' = [call EXCEPT !.op = "save", !.arg = <<j>>, !.ret = None, !.reply = None]
    /\ UNCHANGED <<processing_times, total_processed, broker, upPc, workerVars,
                   crashes, cleanups, outcome, outdir, artifact, execs, retryAfter,
                   monVars, recorded>>

\* job.delete_from_queue(redis_client); reply is what zrem answers (the number of
\* members removed), which delete_from_queue drops
DeleteFromQueue(j) ==
    /\ call.n < MaxCalls
    /\ job_queue' = Zrem(job_queue, j)
    /\ call' = [Call("delete_from_queue", <<j>>, None) EXCEPT
                   !.reply = Some(Cardinality(job_queue) - Cardinality(job_queue'))]
    /\ UNCHANGED <<jobs, processing_times, total_processed, broker, upPc, workerVars,
                   histVars, monVars, recorded>>

\* Job.get_queue_position(job_id, redis_client)
GetQueuePosition(j) ==
    /\ call.n < MaxCalls
    /\ call' = Call("get_queue_position", <<j>>, Some(get_queue_position(j, job_queue)))
    /\ UNCHANGED <<storeVars, broker, upPc, workerVars, histVars, monVars, recorded>>

QueueInit ==
    /\ jobs = [x \in {} |-> NoJob]
    /\ job_queue = {}
    /\ processing_times = <<>>
    /\ total_processed = 0
    /\ broker = <<>>
    /\ upPc = [j \in JobIds |-> "idle"]
    /\ wpc = "idle"
    /\ cur = 0
    /\ wjob = NoJob
    /\ exc = NoExc
    /\ now = 1
    /\ crashes = 0
    /\ cleanups = 0
    /\ outcome = "none"
    /\ outdir = {}
    /\ artifact = FALSE
    /\ execs = [j \in JobIds |-> 0]
    /\ retryAfter = [j \in JobIds |-> "none"]
    /\ MonitorOff
    /\ NoCalls

QueueNext ==
    \/ Tick
    \/ \E j \in JobIds : JobSave(j) \/ DeleteFromQueue(j) \/ GetQueuePosition(j)

QueueSpec == QueueInit /\ [][QueueNext]_vars

\* ------------------------------------------------------------------ the progress parser on single lines (services/progress_parser.py)
\* Nothing is stored and no task or request is under way.
AtRest ==
    /\ jobs = [x \in {} |-> NoJob]
    /\ job_queue = {}
    /\ processing_times = <<>>
    /\ total_processed = 0
    /\ broker = <<>>
    /\ upPc = [j \in JobIds |-> "idle"]
    /\ wpc = "idle"
    /\ cur = 0
    /\ wjob = NoJob
    /\ exc = NoExc
    /\ now = 1
    /\ crashes = 0
    /\ cleanups = 0
    /\ outcome = "none"
    /\ outdir = {}
    /\ artifact = FALSE
    /\ execs = [j \in JobIds |-> 0]
    /\ retryAfter = [j \in JobIds |-> "none"]
    /\ MonitorOff

\* Lines of pipeline output: any combination of keyword phrases (none; "Saving
\* results"; "Running segmentation ... done"; "Loading model"), a "[PROGRESS]
\* step/total: name" marker and a percentage.
ParseLines ==
    { Line(kws, marker, pct) :
        kws \in {{}, {9}, {3, 10}, {1}},
        marker \in {<<>>, <<5, 10>>, <<2, 3>>, <<3, 0>>, <<7, 5>>, <<1, 8>>},
        pct \in {<<>>, <<45>>, <<150>>} }

ParseInit == AtRest /\ NoCalls

ParseProgressLine ==
    /\ call.n < MaxCalls
    /\ \E line \in ParseLines :
          call' = Call("parse_progress_line", <<line>>, Some(parse_progress_line(line)))
    /\ UNCHANGED <<storeVars, broker, upPc, workerVars, histVars, monVars, recorded>>

ParseNext == ParseProgressLine

ParseSpec == ParseInit /\ [][ParseNext]_vars

\* ------------------------------------------------------------------ responses of upload_file and get_status (routes/upload.py, routes/status.py)
\* The responses are observed one at a time in `call`: op names the handler, arg
\* the job id, reply what Job.load returned to get_status, ret the response.
QueuedResponse(queue_position, wait) ==
    [status |-> "queued", queue_position |-> queue_position,
     estimated_wait_seconds |-> wait]

OtherResponse(status) ==
    [status |-> status, queue_position |-> 0, estimated_wait_seconds |-> 0]

NotFound == OtherResponse("404")

StatusPending == call.op = "get_status" /\ call.ret = None

\* upload_file, lines 164-174: the queue position is read after delay returned
UploadRespond(j) ==
    /\ upPc[j] = "sent"
    /\ ~StatusPending
    /\ upPc' = [upPc EXCEPT ![j] = "responded"]
    /\ call' = The({ [call EXCEPT !.op = "upload_file", !.arg = <<j>>, !.reply = None,
                                  !.ret = Some(QueuedResponse(queue_position,
                                             get_estimated_wait(queue_position,
                                                                processing_times)))] :
                       queue_position \in {get_queue_position(j, job_queue)} })
    /\ UNCHANGED <<storeVars, broker, workerVars, histVars, monVars, recorded>>

\* get_status: job = Job.load(job_id, redis_client).  The client asks for a job
\* whose id an UploadResponse has told it, or for an id that no job has.
StatusLoad(j) ==
    /\ call.n < MaxCalls
    /\ upPc[j] \in {"responded", "idle"}
    /\ ~StatusPending
    /\ call' = [Call("get_status", <<j>>, None) EXCEPT
                   !.reply = IF Saved(j) THEN Some(jobs[j]) ELSE None]
    /\ UNCHANGED <<storeVars, broker, upPc, workerVars, histVars, monVars, recorded>>

\* get_status: the response for the status that was loaded
StatusRespond ==
    /\ StatusPending
    /\ call' = [call EXCEPT !.ret =
                  IF call.reply = None THEN Some(NotFound)
                  ELSE IF call.reply[1].status = "queued"
                    THEN The({ Some(QueuedResponse(queue_position,
                                      get_estimated_wait(queue_position,
                                                         processing_times))) :
                                 queue_position \in
                                   {get_queue_position(call.arg[1], job_queue)} })
                  ELSE Some(OtherResponse(call.reply[1].status))]
    /\ UNCHANGED <<storeVars, broker, upPc, workerVars, histVars, monVars, recorded>>

RespInit == AtRest /\ NoCalls

\* The worker up to the point where the job is in processing.
StartProcessing == Recv \/ Load \/ Dequeue \/ SaveProcessing

RespNext ==
    \/ Upload
    \/ \E j \in JobIds : UploadRespond(j)
    \/ \E j \in JobIds : StatusLoad(j)
    \/ StatusRespond
    \/ StartProcessing

RespSpec == RespInit /\ [][RespNext]_vars

\* ------------------------------------------------------------------ a failing subprocess of run_real_pipeline (workers/pipeline_worker.py)
\* The job is in processing and run_real_pipeline has reported "Running
\* segmentation": subprocess.run is about to return.
RunningJob == progress_callback(ProcessingJob, 2, 5, "Running segmentation")

FailInit ==
    /\ jobs = [x \in {1} |-> RunningJob]
    /\ job_queue = {}
    /\ processing_times = <<>>
    /\ total_processed = 0
    /\ broker = <<>>
    /\ upPc = [j \in JobIds |-> IF j = 1 THEN "sent" ELSE "idle"]
    /\ wpc = "real_sub"
    /\ cur = 1
    /\ wjob = RunningJob
    /\ exc = NoExc
    /\ now = 2
    /\ crashes = 0
    /\ cleanups = 0
    /\ outcome = "none"
    /\ outdir = {}
    /\ artifact = FALSE
    /\ execs = [j \in JobIds |-> IF j = 1 THEN 1 ELSE 0]
    /\ retryAfter = [j \in JobIds |-> "none"]
    /\ MonitorOff
    /\ NoCalls

\* subprocess.run returns a non-zero code; `collected` is result.stdout and
\* result.stderr
FailedRun ==
    /\ wpc = "real_sub"
    /\ \E stderr \in Outputs \cup {<<>>}, stdout \in Stdouts :
          /\ collected' = [stdout |-> stdout, stderr |-> stderr]
          /\ Raise(PipelineFailed(stderr, stdout))
    /\ outcome' = "failed"
    /\ proc' = [proc EXCEPT !.state = "exited", !.rc = 1]
    /\ UNCHANGED <<storeVars, broker, upPc, cur, wjob, now, crashes, cleanups, outdir,
                   artifact, execs, retryAfter, mpc, pipes, queues, last_progress,
                   elapsed, svcVars>>

FailNext == FailedRun \/ Handler \/ HandlerCleanup \/ Ack

FailSpec == FailInit /\ [][FailNext]_vars

\* ------------------------------------------------------------------ properties
StatusOf(j) == IF Saved(j) THEN jobs[j].status ELSE "absent"

Terminal == {"complete", "error"}

AllowedStep(a, b) ==
    \/ a = b
    \/ <<a, b>> \in {<<"absent", "queued">>, <<"queued", "processing">>,
                     <<"processing", "complete">>, <<"processing", "error">>}

\* C1: the persisted status of every job changes only queued -> processing,
\* processing -> complete or processing -> error, and a complete or error status
\* never changes again, whatever uploads, executions of process_pipeline,
\* redeliveries after a worker crash and failures inside the task happen.
C1_StatusTransitions ==
    [][\A j \in JobIds : AllowedStep(StatusOf(j), StatusOf(j)')]_vars

\* C2: in every state of the store, between the single Redis writes too, a job id
\* is a member of job_queue if and only if its persisted status is queued.
C2_QueuedIffInQueue ==
    \A j \in JobIds : InQueue(j) <=> StatusOf(j) = "queued"

\* C3: at every instant at most one persisted job record has status processing.
C3_AtMostOneProcessing ==
    Cardinality({j \in JobIds : StatusOf(j) = "processing"}) <= 1

\* C4: in every persisted job record the result fields are set only when the
\* status is complete, the error fields only when the status is error, and the
\* two groups are never both populated.
C4_FieldGroups ==
    \A j \in DOMAIN jobs :
        /\ (jobs[j].result_path # None \/ jobs[j].result_size_bytes # None)
              => jobs[j].status = "complete"
        /\ (jobs[j].error_message # None \/ jobs[j].error_code # None)
              => jobs[j].status = "error"
        /\ ~ /\ (jobs[j].result_path # None \/ jobs[j].result_size_bytes # None)
             /\ (jobs[j].error_message # None \/ jobs[j].error_code # None)

\* C5: every job whose record upload_file has saved eventually has status
\* complete or error, when the worker and the upload handler keep running.
C5_EventuallyTerminal ==
    \A j \in JobIds : Saved(j) ~> (StatusOf(j) \in Terminal)

NonRetryable == {"INVALID_FORMAT", "DICOM_ERROR"}

MaxReExecutions == 2

\* C8: process_pipeline runs again for a failed job only when the failure was
\* retryable, never after a validation or format failure, and a job is
\* re-executed at most 2 times.
C8_RetryOnlyRetryable ==
    \A j \in JobIds :
        /\ retryAfter[j] \notin NonRetryable
        /\ execs[j] <= 1 + MaxReExecutions

\* C9: while the persisted status of a job is processing, its persisted
\* progress_percent never decreases, for any output lines on stdout and stderr
\* and any time-based fallback update.
C9_ProgressMonotone ==
    [][\A j \in DOMAIN jobs :
          (jobs[j].status = "processing" /\ jobs'[j].status = "processing")
             => jobs'[j].progress_percent >= jobs[j].progress_percent]_vars

C13_NewestTwentyKept ==
    LET n == Len(recorded)
        kept == IF n < 20 THEN n ELSE 20
    IN /\ Len(processing_times) = kept
       /\ \A i \in 1..kept : processing_times[i] = recorded[n + 1 - i]

C13_TwentyFirstRecorded ==
    /\ call.op = "record_processing_time"
    /\ Len(recorded) = 21
    /\ Len(processing_times) = 20
    /\ processing_times[20] = recorded[2]

\* C14: get_estimated_wait(position) is position * 240 when no duration is
\* stored, and otherwise position times the arithmetic mean of the stored
\* durations, truncated to an integer: durations 100, 200, 300 have the mean 200
\* and give a wait of 600 for position 3.
C14_WaitIsPositionTimesMean ==
    call.op = "get_estimated_wait" =>
        LET position == call.arg[1] IN
        /\ processing_times = <<>> => call.ret = Some(position * 240)
        /\ processing_times # <<>> =>
              call.ret = Some(Trunc(position * Sum(processing_times),
                                    Len(processing_times)))
        /\ (processing_times = <<300, 200, 100>> /\ position = 3) =>
              (call.ret = Some(600) /\ Sum(processing_times) = 200 * 3)

C14_WaitForThirdPosition ==
    /\ call.op = "get_estimated_wait"
    /\ call.arg = <<3>>
    /\ processing_times = <<300, 200, 100>>
    /\ call.ret = Some(600)

\* The phrase groups in their priority order.
PhraseGroups ==
    << [code |-> "GPU_OOM",
        phrases |-> {<<"cuda", "out", "of", "memory">>, <<"out", "of", "memory">>,
                     <<"cuda", "error">>, <<"cudnn", "error">>, <<"gpu", "memory">>,
                     <<"oom">>}],
       [code |-> "TIMEOUT", phrases |-> {<<"timeout">>}],
       [code |-> "FILE_NOT_FOUND",
        phrases |-> {<<"not", "found">>, <<"does", "not", "exist">>,
                     <<"no", "such", "file">>}],
       [code |-> "INVALID_FORMAT",
        phrases |-> {<<"invalid", "format">>, <<"cannot", "read">>,
                     <<"unsupported", "format">>, <<"not", "a", "valid">>}],
       [code |-> "DICOM_ERROR",
        phrases |-> {<<"dicom">>, <<"dcm", "error">>, <<"no", "dicom">>}],
       [code |-> "SEGMENTATION_FAILED",
        phrases |-> {<<"segmentation", "failed">>, <<"segmentation", "error">>,
                     <<"no", "segmentation">>}],
       [code |-> "NSM_FAILED",
        phrases |-> {<<"nsm", "error">>, <<"nsm", "failed">>, <<"shape", "model">>,
                     <<"bscore", "error">>}],
       [code |-> "CONFIG_ERROR",
        phrases |-> {<<"config", "error">>, <<"invalid", "config">>,
                     <<"missing", "config">>}] >>

MatchingGroups(text) ==
    {g \in DOMAIN PhraseGroups : AnyPhrase(LowerText(text), PhraseGroups[g].phrases)}

\* C15: parse_error_from_output returns a code for every text: the code of the
\* earliest group, in the order GPU_OOM, TIMEOUT, FILE_NOT_FOUND, INVALID_FORMAT,
\* DICOM_ERROR, SEGMENTATION_FAILED, NSM_FAILED, CONFIG_ERROR, that has a phrase
\* in the text, and PIPELINE_ERROR when no group has one.
C15_EarliestGroupWins ==
    call.op = "parse_error_from_output" =>
        /\ call.ret # None
        /\ call.ret[1] \in ErrorCode
        /\ call.ret[1] = IF MatchingGroups(call.arg) = {} THEN "PIPELINE_ERROR"
                         ELSE PhraseGroups[Min(MatchingGroups(call.arg))].code

C15_SeveralGroupsMatch ==
    /\ call.op = "parse_error_from_output"
    /\ MatchingGroups(call.arg) = {2, 5, 8}
    /\ Contains(call.arg, <<"DICOM", "series", "incomplete", NL, "Timeout">>)
    /\ call.ret = Some("TIMEOUT")

\* C16: the error_code that process_pipeline persists for a failure is
\* parse_error_from_output of the subprocess output when the subprocess failed
\* and left output, and _map_exception_to_code of the exception when the failure
\* came without subprocess output.
C16_OutputRulesOnlyForOutput ==
    wpc = "handler_cleanup" =>
        /\ outcome = "failed" =>
              \E stderr \in Stderrs, stdout \in Stdouts :
                  /\ exc = PipelineFailed(stderr, stdout)
                  /\ jobs[cur].error_code =
                        Some(parse_error_from_output(IF stderr # <<>> THEN stderr
                                                                      ELSE stdout))
        /\ outcome \in {"none", "timeout"} =>
              jobs[cur].error_code = Some(_map_exception_to_code(exc))

\* C17: every persisted job record with status error has an error_code that is
\* one of the nine ErrorCode values and an error_message made of that code's
\* message and recovery hint, both non-empty.
C17_ErrorCarriesCodeAndMessage ==
    /\ Cardinality(ErrorCode) = 9
    /\ \A c \in ErrorCode :
          ERROR_MESSAGES(c).message # "" /\ ERROR_MESSAGES(c).recovery_hint # ""
    /\ \A j \in DOMAIN jobs :
          jobs[j].status = "error" =>
              /\ jobs[j].error_code # None
              /\ jobs[j].error_code[1] \in ErrorCode
              /\ jobs[j].error_message # None
              /\ jobs[j].error_message[1] =
                    <<ERROR_MESSAGES(jobs[j].error_code[1]).message,
                      ERROR_MESSAGES(jobs[j].error_code[1]).recovery_hint>>

C17_SegmentationErrorPersisted ==
    \E j \in DOMAIN jobs :
        /\ jobs[j].status = "error"
        /\ jobs[j].error_code = Some("SEGMENTATION_FAILED")
        /\ jobs[j].error_message =
              Some(<<"The segmentation step failed to complete.",
                     "The image quality may be insufficient. Try a different segmentation model.">>)

\* C18: for each job the transition queued -> processing happens once: the
\* persisted started_at, once set, is never overwritten, and neither is the
\* persisted completed_at.
C18_TimestampsSetOnce ==
    [][\A j \in DOMAIN jobs :
          /\ jobs[j].started_at # None => jobs'[j].started_at = jobs[j].started_at
          /\ jobs[j].completed_at # None => jobs'[j].completed_at = jobs[j].completed_at]_vars

\* C19: every execution of process_pipeline that put a job into processing has
\* called cleanup_gpu_memory when the task finishes, on success, on failure and on
\* timeout, with the real and with the dummy pipeline.
C19_CleanupBeforeTaskEnds ==
    (wpc = "ack" /\ cur \in DOMAIN jobs) => cleanups >= 1

\* The lines the subprocess has written that no parse_progress_line call has seen.
UnseenLines(st) == pipes[st] \o queues[st]

\* C20: every output line that parse_progress_line recognises has been passed to
\* it, and its update persisted, before the subprocess exits: once the subprocess
\* has exited no recognised line is still waiting in a pipe or a queue.
C20_RecognisedLinesSeenBeforeExit ==
    proc.state = "exited" =>
        \A st \in Streams : \A i \in 1..Len(UnseenLines(st)) :
            parse_progress_line(UnseenLines(st)[i]).kind # "update"

\* C11: before any dequeue, get_queue_position of a queued job is 1 plus the
\* number of queued jobs submitted before it (job ids are numbered in the order
\* of submission), and 0 for a job that is not in the queue.
C11_RankIsSubmissionOrder ==
    (call.op = "get_queue_position" /\ \A i \in DOMAIN jobs : InQueue(i)) =>
        call.ret =
            Some(IF InQueue(call.arg[1])
                   THEN 1 + Cardinality({i \in JobIds : InQueue(i) /\ i < call.arg[1]})
                   ELSE 0)

\* C12: after delete_from_queue the job's rank is 0; a call for a job that is
\* not in the queue returns normally and leaves the queue as it was: the same
\* members, the same ranks, the same length.
C12_DeleteIdempotent ==
    [][(call'.op = "delete_from_queue" /\ call'.n # call.n) =>
          /\ call'.ret = None
          /\ get_queue_position(call'.arg[1], job_queue') = 0
          /\ \A i \in JobIds \ {call'.arg[1]} : InQueue(i)' = InQueue(i)
          /\ ~InQueue(call'.arg[1]) =>
                /\ \A i \in JobIds :
                      get_queue_position(i, job_queue') = get_queue_position(i, job_queue)
                /\ get_queue_length(job_queue') = get_queue_length(job_queue)]_vars

C12_DeletedTwice ==
    /\ call.op = "delete_from_queue"
    /\ call.reply = Some(0)
    /\ call.arg[1] \in DOMAIN jobs
    /\ ~InQueue(call.arg[1])
    /\ job_queue # {}

\* The jobs whose persisted status is complete.
CompleteJobs == {j \in DOMAIN jobs : jobs[j].status = "complete"}

\* C21: when every task has ended (the worker is idle and no message waits),
\* the number of durations pushed to processing_times and the processed counter
\* both equal the number of jobs whose status is complete: one push and one
\* increment for each complete job, none for a job that ended in error.
C21_StatsOncePerCompleteJob ==
    (wpc = "idle" /\ broker = <<>>) =>
        /\ Len(recorded) = Cardinality(CompleteJobs)
        /\ total_processed = Cardinality(CompleteJobs)

\* round(num / den) of Python: to the nearest integer, a half to the even one
Round(num, den) ==
    LET q == num \div den
        twice == 2 * (num % den)
    IN IF twice < den THEN q
       ELSE IF twice > den THEN q + 1
       ELSE IF q % 2 = 0 THEN q ELSE q + 1

\* C22: for a line that carries a "[PROGRESS] step/total: name" marker,
\* parse_progress_line returns an update with that marker's step, total and
\* name and percent = round(100 * step / total), whatever keyword phrase or
\* percentage the line carries besides: the marker is tried first, then the
\* percentage, then the keywords.
C22_MarkerFirst ==
    (call.op = "parse_progress_line" /\ call.arg[1].marker # <<>>) =>
        LET step == call.arg[1].marker[1]
            total == call.arg[1].marker[2]
        IN /\ call.ret[1].kind = "update"
           /\ total > 0 =>
                 call.ret = Some(ProgressUpdate(step, total, "marker",
                                                Round(100 * step, total)))

\* Elapsed times and estimated totals, in seconds.
ElapsedTimes == {0, 1, 150, 285, 299, 300, 1800, 100000}
EstimatedTotals == {-5, 0, 1, 300, 600}

\* Some line taken off a queue so far is one parse_progress_line recognises.
LineRecognised ==
    \E st \in Streams : \E i \in 1..Len(collected[st]) :
        parse_progress_line(collected[st][i]).kind = "update"

\* C23: at the fallback step of the monitoring loop the time-based estimate is
\* reported (passed to progress_callback and saved) when no line has been
\* recognised so far, and nothing is reported once a line has been; the
\* estimate's percent is at most 95, for every elapsed time and every estimated
\* total, a total <= 0 counting as 300.
C23_FallbackOnlyBeforeProgress ==
    /\ \A e \in ElapsedTimes, t \in EstimatedTotals :
          /\ estimate_progress_from_time(e, t).percent <= 95
          /\ t <= 0 => estimate_progress_from_time(e, t)
                          = estimate_progress_from_time(e, 300)
    /\ [][(mpc = "fallback" /\ mpc' = "sleep") =>
             IF LineRecognised
               THEN jobs' = jobs /\ wjob' = wjob
               ELSE LET tp == estimate_progress_from_time(elapsed.at_head, 300) IN
                    /\ tp.percent <= 95
                    /\ wjob' = progress_callback(wjob, tp.step, tp.total_steps,
                                                 tp.step_name)
                    /\ jobs'[cur] = wjob']_vars

\* The loop has reported the capped estimate (1800 s of an estimated 300 s).
C23_CappedEstimateReported ==
    /\ mpc = "sleep"
    /\ ~LineRecognised
    /\ elapsed.at_head = PIPELINE_TIMEOUT_SECONDS
    /\ wjob.step_name = "Saving results"
    /\ jobs[cur].progress_percent = 90

\* C24: when run_pipeline_with_progress returns, every line a reader thread has
\* put on stdout_queue or stderr_queue has been moved to stdout_lines or
\* stderr_lines, which make up the returned strings: no line is left on a queue.
C24_NoLineLeftOnQueue ==
    [][(mpc = "join" /\ mpc' = "returned") =>
          \A st \in Streams : queues[st] = <<>>]_vars

\* A process_pipeline message for the job waits in the broker.
TaskPending(j) == \E i \in 1..Len(broker) : broker[i] = j

\* C25: every job in job_queue has a process_pipeline task that will dequeue
\* it: its message waits in the broker, or the worker holds it, or its upload
\* handler has saved the job and is about to call process_pipeline.delay.
C25_QueuedJobHasTask ==
    \A j \in JobIds :
        InQueue(j) => (TaskPending(j) \/ cur = j \/ upPc[j] = "saved")

\* C26: whenever the worker puts a job into processing (status processing,
\* delete_from_queue), that job holds rank 1 in job_queue: jobs are executed in
\* the order of the queue index.
C26_DequeuedJobIsFirst ==
    [][(wpc = "dequeue" /\ wpc' = "save_processing") =>
          get_queue_position(cur, job_queue) = 1]_vars

\* C27: every response of upload_file and of get_status with status queued has
\* queue_position >= 1, however the handler's Redis reads interleave with the
\* worker taking the job out of the queue.
C27_QueuedResponseHasRank ==
    (call.op \in {"upload_file", "get_status"} /\ call.ret # None
       /\ call.ret[1].status = "queued")
        => call.ret[1].queue_position >= 1

\* C28: in every state of the store, the states between two Redis writes of one
\* handler included, every job id in job_queue has a persisted record whose
\* status is queued.
C28_QueueMemberIsQueued ==
    \A j \in JobIds : InQueue(j) => (Saved(j) /\ jobs[j].status = "queued")

\* The worker has removed job 1 from job_queue and not yet saved it as
\* processing, while job 2 waits in the queue.
C28_BetweenWorkerWrites ==
    /\ wpc = "save_processing"
    /\ cur = 1
    /\ ~InQueue(1)
    /\ StatusOf(1) = "queued"
    /\ InQueue(2)
    /\ StatusOf(2) = "queued"

\* The text run_real_pipeline hands to _parse_pipeline_error.
RawOutput == IF collected.stderr # <<>> THEN collected.stderr ELSE collected.stdout

\* C29: after a subprocess exit with a non-zero code, the error_code persisted
\* on the job is parse_error_from_output of the raw stderr (or stdout) text:
\* the rewriting by _parse_pipeline_error does not change the classification.
C29_RewriteKeepsCode ==
    (wpc = "handler_cleanup" /\ outcome = "failed") =>
        jobs[cur].error_code = Some(parse_error_from_output(RawOutput))

\* C30: run_pipeline_with_progress raises TimeoutError only for a subprocess
\* that was still running when the elapsed time exceeded the timeout: a
\* subprocess that exited at or before the deadline is never reported as a
\* timeout.
C30_NoTimeoutAfterExit ==
    mpc = "timeout" =>
        ~(proc.state = "exited" /\ proc.at <= PIPELINE_TIMEOUT_SECONDS)

====
